---- MODULE Spec2Model ----
(***************************************************************************)
(* Strassen / classic square-matrix multiplication of                       *)
(* trabalho_div_conq (src/matrix.py, src/classic.py, src/strassen.py).      *)
(*                                                                         *)
(* A matrix is a Python list of row lists: here a sequence of sequences of  *)
(* integers, 1-based (Python index i is i+1 here).  Matrices live in a      *)
(* heap of objects, heap[id], so that aliasing and in-place writes can be   *)
(* told apart from fresh allocation.  Python integers are unbounded, and    *)
(* so are the integers here.  The messages of the ValueErrors are written   *)
(* without their diacritics.                                                *)
(***************************************************************************)
EXTENDS Integers, Sequences, FiniteSets, TLC

\* ------------------------------------------------------------------ bounds
MaxN == 4          \* operand sizes 1..MaxN
MaxSeed == 2       \* operand matrices per size
MaxCutoff == 4     \* cutoff ranges over -1..MaxCutoff
MaxClock == 2      \* perf_counter() readings 0..MaxClock
MaxSeqN == 3       \* operand sizes of the repeated-call specification
MaxRuns == 2       \* calls in a row in the repeated-call specification
MaxPadN == 6       \* sizes of the padding round trip
MaxFairN == 3      \* operand sizes 1..MaxFairN of a call followed to its end
MaxPadSeed == 3    \* matrices per size of the padding round trip

\* ------------------------------------------------------- Python list slices
Min(a, b) == IF a < b THEN a ELSE b

\* s[:k]
Take(s, k) == SubSeq(s, 1, Min(k, Len(s)))

\* s[k:]
Drop(s, k) == SubSeq(s, k + 1, Len(s))

\* ------------------------------------------------------------- src/matrix.py
zeros(n) == [i \in 1..n |-> [j \in 1..n |-> 0]]

\* C = zeros(n); C[i][j] = A[i][j] + B[i][j] for i, j < n = len(A)
add(A, B) == [i \in 1..Len(A) |-> [j \in 1..Len(A) |-> A[i][j] + B[i][j]]]

sub(A, B) == [i \in 1..Len(A) |-> [j \in 1..Len(A) |-> A[i][j] - B[i][j]]]

\* True when add(A, B) / sub(A, B) index past the end of a row of A or B
\* (Python raises IndexError there).
add_raises(A, B) ==
    \E i \in 1..Len(A) :
        \/ i > Len(B)
        \/ Len(A[i]) < Len(A)
        \/ Len(B[i]) < Len(A)

\* the rows cut at mid, the columns left whole
split_rows_only(A) ==
    LET mid == Len(A) \div 2
    IN  << Take(A, mid), Take(A, mid), Drop(A, mid), Drop(A, mid) >>

\* <<A11, A12, A21, A22>>, cut at mid = n // 2
split(A) ==
    LET mid == Len(A) \div 2
        top == Take(A, mid)
        bot == Drop(A, mid)
    IN  << [i \in 1..Len(top) |-> Take(top[i], mid)],
           [i \in 1..Len(top) |-> Drop(top[i], mid)],
           [i \in 1..Len(bot) |-> Take(bot[i], mid)],
           [i \in 1..Len(bot) |-> Drop(bot[i], mid)] >>

\* C = zeros(2*mid); C[i][:mid] = C11[i]; C[i][mid:] = C12[i]; and the same
\* for the lower half.  A slice assignment replaces the slice by the whole
\* right-hand side.
combine(C11, C12, C21, C22) ==
    LET mid == Len(C11)
        n == mid * 2
        Z == zeros(n)
        Row(z, l, r) == Take(l \o Drop(z, mid), mid) \o r
    IN  [i \in 1..n |->
            IF i <= mid THEN Row(Z[i], C11[i], C12[i])
            ELSE Row(Z[i], C21[i - mid], C22[i - mid])]

RECURSIVE pow2_from(_, _)
\* while p < n: p <<= 1
pow2_from(p, n) == IF p < n THEN pow2_from(2 * p, n) ELSE p

\* no rounding up: the size is taken as it is
next_power_of_two_same(n) == n

next_power_of_two(n) == pow2_from(1, n)

\* P = zeros(new_n); P[i][j] = A[i][j] for i, j < n
pad_to_size(A, new_n) ==
    [i \in 1..new_n |-> [j \in 1..new_n |->
        IF i <= Len(A) /\ j <= Len(A) THEN A[i][j] ELSE 0]]

\* the rows kept whole
crop_rows_only(A, n) == Take(A, n)

\* [row[:n] for row in A[:n]]
crop(A, n) == LET R == Take(A, n) IN [i \in 1..Len(R) |-> Take(R[i], n)]

is_square(A) == \A i \in 1..Len(A) : Len(A[i]) = Len(A)

\* ------------------------------------------------------------ src/classic.py
RECURSIVE dot(_, _, _, _, _)
\* s = 0; for k in range(n): s += A[i][k] * B[k][j]
dot(A, B, i, j, k) ==
    IF k = 0 THEN 0 ELSE dot(A, B, i, j, k - 1) + A[i][k] * B[k][j]

\* the three nested loops of mul_classic, after its validation
classic_loops(A, B) ==
    [i \in 1..Len(A) |-> [j \in 1..Len(A) |-> dot(A, B, i, j, Len(A))]]

\* B checked before A
classic_validate_b_first(A, B) ==
    IF ~is_square(B) THEN "Matriz B nao e quadrada."
    ELSE IF ~is_square(A) THEN "Matriz A nao e quadrada."
    ELSE IF Len(B) # Len(A) THEN "A e B devem ter o mesmo tamanho (n x n)."
    ELSE "ok"

\* validation of mul_classic: "ok" or the message of the ValueError raised
classic_validate(A, B) ==
    IF ~is_square(A) THEN "Matriz A nao e quadrada."
    ELSE IF ~is_square(B) THEN "Matriz B nao e quadrada."
    ELSE IF Len(B) # Len(A) THEN "A e B devem ter o mesmo tamanho (n x n)."
    ELSE "ok"

\* ----------------------------------------------------------- src/strassen.py
\* the size comparison left out
strassen_validate_nosize(A, B) ==
    IF ~is_square(A) THEN "Matriz A nao e quadrada."
    ELSE IF ~is_square(B) THEN "Matriz B nao e quadrada."
    ELSE "ok"

\* validation of mul_strassen: "ok" or the message of the ValueError raised
strassen_validate(A, B) ==
    IF ~is_square(A) THEN "Matriz A nao e quadrada."
    ELSE IF ~is_square(B) THEN "Matriz B nao e quadrada."
    ELSE IF Len(B) # Len(A) THEN "A e B devem ter o mesmo tamanho (n x n)."
    ELSE "ok"

\* StrassenStats()
StrassenStats == [calls |-> 0, split_combine_time |-> 0]

\* [[A[0][0] * B[0][0]]]
base_product(A, B) == << << A[1][1] * B[1][1] >> >>

base_raises(A, B) == Len(A) < 1 \/ Len(A[1]) < 1 \/ Len(B) < 1 \/ Len(B[1]) < 1

\* the operands of the k-th recursive call, M1..M7, among the frame's locals
sub_args(loc, k) ==
    CASE k = 1 -> << loc["A11_plus_A22"], loc["B11_plus_B22"] >>
      [] k = 2 -> << loc["A21_plus_A22"], loc["B11"] >>
      [] k = 3 -> << loc["A11"], loc["B12_minus_B22"] >>
      [] k = 4 -> << loc["A22"], loc["B21_minus_B11"] >>
      [] k = 5 -> << loc["A11_plus_A12"], loc["B22"] >>
      [] k = 6 -> << loc["A21_minus_A11"], loc["B11_plus_B12"] >>
      [] k = 7 -> << loc["A12_minus_A22"], loc["B21_plus_B22"] >>

\* a sign slip in C22: M1 - M2 + M3 - M6
result_quadrants_sign(M) ==
    << add(sub(add(M[1], M[4]), M[5]), M[7]),
       add(M[3], M[5]),
       add(M[2], M[4]),
       sub(sub(add(M[1], M[3]), M[2]), M[6]) >>

\* C11 = M1 + M4 - M5 + M7, C12 = M3 + M5, C21 = M2 + M4, C22 = M1 - M2 + M3 + M6
result_quadrants(M) ==
    << add(sub(add(M[1], M[4]), M[5]), M[7]),
       add(M[3], M[5]),
       add(M[2], M[4]),
       add(sub(add(M[1], M[3]), M[2]), M[6]) >>

\* some add / sub / combine of the second window indexes out of range
window2_raises(M) ==
    \/ add_raises(M[1], M[4])
    \/ add_raises(M[1], M[5])
    \/ add_raises(M[1], M[7])
    \/ add_raises(M[3], M[5])
    \/ add_raises(M[2], M[4])
    \/ add_raises(M[1], M[3])
    \/ add_raises(M[1], M[2])
    \/ add_raises(M[1], M[6])
    \/ Len(M[3]) < Len(M[1])
    \/ Len(M[2]) < Len(M[1])

\* --------------------------------------------------------------- the heap
\* H = [mem |-> id -> matrix, next |-> the next fresh id].  Every call below
\* returns [H |-> the heap after it, r |-> the object(s) it returns].
alloc(H, M) ==
    [H |-> [mem |-> (H.next :> M) @@ H.mem, next |-> H.next + 1], r |-> H.next]

\* the locals of a returning call die, except the object it returns
free(H, base, keep) ==
    [mem |-> [id \in {x \in DOMAIN H.mem : x < base \/ x = keep} |-> H.mem[id]],
     next |-> H.next]

\* pad_to_size(A, new_n): P = zeros(new_n) is a new list, A is only read
call_pad_to_size(H, a, new_n) == alloc(H, pad_to_size(H.mem[a], new_n))

\* crop(A, n): a list comprehension of slices, all new lists
call_crop(H, a, n) == alloc(H, crop(H.mem[a], n))

\* C = A instead of C = zeros(n): the product is written into A
call_classic_inplace(H, a, b) ==
    [H |-> [mem |-> [H.mem EXCEPT ![a] = classic_loops(H.mem[a], H.mem[b])],
            next |-> H.next],
     r |-> a]

\* mul_classic(A, B) after validation: C = zeros(n) is a new list
call_classic(H, a, b) == alloc(H, classic_loops(H.mem[a], H.mem[b]))

\* the eight quadrants of split(A) and split(B), lines 93-94
quad_names == << "A11", "A12", "A21", "A22", "B11", "B12", "B21", "B22" >>

\* lines 104-117 of _strassen_rec, in the order of the source:
\* << local, operation, left operand, right operand >>
aux_table ==
    << << "A11_plus_A22", "add", "A11", "A22" >>,
       << "B11_plus_B22", "add", "B11", "B22" >>,
       << "A21_plus_A22", "add", "A21", "A22" >>,
       << "B12_minus_B22", "sub", "B12", "B22" >>,
       << "B21_minus_B11", "sub", "B21", "B11" >>,
       << "A11_plus_A12", "add", "A11", "A12" >>,
       << "A21_minus_A11", "sub", "A21", "A11" >>,
       << "B11_plus_B12", "add", "B11", "B12" >>,
       << "A12_minus_A22", "sub", "A12", "A22" >>,
       << "B21_plus_B22", "add", "B21", "B22" >> >>

\* lines 93-94 of _strassen_rec: the quadrants of A and B by name
quadrants(A, B) ==
    LET a == split(A)
        b == split(B)
    IN  [A11 |-> a[1], A12 |-> a[2], A21 |-> a[3], A22 |-> a[4],
         B11 |-> b[1], B12 |-> b[2], B21 |-> b[3], B22 |-> b[4]]

\* the locals lines 93-117 bind, in the order of the source
local_names == quad_names \o [k \in 1..Len(aux_table) |-> aux_table[k][1]]

\* the k-th list object lines 93-117 create, from the quadrants q
made(q, k) ==
    IF k <= Len(quad_names) THEN q[quad_names[k]]
    ELSE LET e == aux_table[k - Len(quad_names)]
         IN  IF e[2] = "add" THEN add(q[e[3]], q[e[4]]) ELSE sub(q[e[3]], q[e[4]])

\* lines 93-117 of _strassen_rec: the two splits and the ten sums and
\* differences, every one a new list built from the quadrants q; r maps each
\* local of the frame to its object
window1(H, q) ==
    [H |-> [mem |-> [id \in DOMAIN H.mem \cup (H.next..(H.next + Len(local_names) - 1)) |->
                        IF id >= H.next THEN made(q, id - H.next + 1) ELSE H.mem[id]],
            next |-> H.next + Len(local_names)],
     r |-> [x \in {local_names[k] : k \in 1..Len(local_names)} |->
              H.next - 1 + CHOOSE k \in 1..Len(local_names) : local_names[k] = x]]

\* some add / sub of the first window indexes out of range
window1_raises(q) ==
    \E k \in 1..Len(aux_table) : add_raises(q[aux_table[k][3]], q[aux_table[k][4]])

\* lines 137-142 of _strassen_rec: the result quadrants and their combine;
\* the intermediate sums are new lists that die with the frame
window2(H, M) ==
    LET V == [k \in 1..7 |-> H.mem[M[k]]]
        Q == result_quadrants(V)
    IN  alloc(H, combine(Q[1], Q[2], Q[3], Q[4]))

\* ------------------------------------------------------------------ inputs
\* An n x n operand with entries in -2..2, one per seed.
gen(n, s) == [i \in 1..n |-> [j \in 1..n |-> ((i * s + j * (s + 1) + i * j) % 5) - 2]]

\* A non-square operand: n rows, the last one a cell too long (odd seed) or
\* a cell too short (even seed).
ragged(n, s) ==
    [i \in 1..n |->
        IF i < n THEN gen(n, s)[i]
        ELSE IF s % 2 = 1 THEN Append(gen(n, s)[i], 0)
        ELSE Take(gen(n, s)[i], n - 1)]

Squares(N, S) == {gen(n, s) : n \in 1..N, s \in 1..S}

Raggeds(N, S) == {ragged(n, s) : n \in 1..N, s \in 1..S}

\* teste_fixo_2x2 of tests_smoke.py
ExampleA == << << 1, 2 >>, << 3, 4 >> >>

ExampleB == << << 5, 6 >>, << 7, 8 >> >>

\* a size of teste_aleatorios_pequenos of tests_smoke.py
TestN == 8

\* the operands of a single call
Operands ==
    Squares(MaxN, MaxSeed) \cup Raggeds(MaxN, MaxSeed)
        \cup {ExampleA, ExampleB, gen(TestN, 1)}

\* An n x n matrix with entries in -2..2, one per pair of seeds.
gen2(n, s, t) == [i \in 1..n |-> [j \in 1..n |-> ((i * s + j * t + i * j) % 5) - 2]]

\* the matrices of the padding round trip: sizes that are no power of two,
\* and every 0/1 matrix of the smallest of them
PadInputs ==
    {gen2(n, s, t) : n \in {k \in 1..MaxPadN : pow2_from(1, k) # k},
                     s \in 0..MaxPadSeed, t \in 0..MaxPadSeed}
        \cup [1..3 -> [1..3 -> {0, 1}]]

\* the operands of a call followed to its end: every size up to MaxFairN,
\* and a non-square one
FairOperands == Squares(MaxFairN, 1) \cup {ragged(MaxFairN, 1)}

\* the operands of repeated calls
SeqOperands == Squares(MaxSeqN, 1) \cup Raggeds(MaxSeqN, 1)

Cutoffs == (-1)..MaxCutoff

\* ------------------------------------------------------------------- state
VARIABLES
    heap,       \* id -> matrix: the live list objects
    nextId,     \* the next fresh object id
    op,         \* "none", "classic" or "strassen": the entry point called
    cutoff,     \* the cutoff argument of mul_strassen
    statsArg,   \* the stats argument: 0 for None, else a stats object id
    statsObjs,  \* id -> StrassenStats object; 1 is the caller's object
    top,        \* the locals of mul_strassen
    stack,      \* the frames of _strassen_rec, innermost last
    pc,         \* "idle", "rec", "ret", "done" or "error"
    clock,      \* the reading perf_counter() gives now
    ret,        \* what the call returned or raised
    pre,        \* the operands, objects and stats as they were at the call
    spent,      \* where the clock advanced during the call
    runs        \* calls made so far

vars == << heap, nextId, op, cutoff, statsArg, statsObjs, top, stack, pc,
           clock, ret, pre, spent, runs >>

argA == 1       \* the caller's operand A is object 1
argB == 2       \* the caller's operand B is object 2
firstLocal == argB + 1 \* the first object a call allocates
callerStats == 1 \* the caller's StrassenStats object
freshStats == callerStats + 1  \* the object mul_strassen creates when stats is None

NoRet == [kind |-> "none", C |-> 0, stats |-> 0, exc |-> "", msg |-> "", at |-> ""]

NoTop == [n |-> 0, m |-> 0, padded |-> FALSE, A_pad |-> 0, B_pad |-> 0,
          C_rec |-> 0, stats |-> 0]

NoSpent == [win |-> 0, classic |-> 0, out |-> 0, nwin |-> 0, big |-> 0, invoked |-> 0]

Init ==
    /\ heap = << >>
    /\ nextId = firstLocal
    /\ op = "none"
    /\ cutoff = 0
    /\ statsArg = 0
    /\ statsObjs = (callerStats :> StrassenStats)
    /\ top = NoTop
    /\ stack = << >>
    /\ pc = "idle"
    /\ clock = 0
    /\ ret = NoRet
    /\ pre = [A |-> << >>, B |-> << >>, ids |-> {}, stats |-> StrassenStats, clock |-> 0]
    /\ spent = NoSpent
    /\ runs = 0

\* perf_counter() is monotonic: between two readings it advances by d >= 0
Tick == IF clock < MaxClock THEN {0, 1} ELSE {0}

H0 == [mem |-> heap, next |-> nextId]

Raised(exc, msg, at) ==
    [kind |-> "raise", C |-> 0, stats |-> 0, exc |-> exc, msg |-> msg, at |-> at]

Returned(c, st) ==
    [kind |-> "value", C |-> c, stats |-> st, exc |-> "", msg |-> "", at |-> ""]

\* 1 for an invocation on a size above the cutoff and above the 1 x 1 base
\* case, 0 for any other
Big(n, c) == IF n > c /\ n > 1 THEN 1 ELSE 0

NewFrame(a, b, base) ==
    [A |-> a, B |-> b, pc |-> 0, loc |-> << >>, M |-> << >>, base |-> base]

\* ----------------------------------------------------------------- actions
\* What a new call starts from: the caller's two operands and its stats
\* object; what earlier calls left behind is gone.
StartCall(A, B, name) ==
    /\ op' = name
    /\ runs' = runs + 1
    /\ pre' = [A |-> A, B |-> B, ids |-> {argA, argB},
               stats |-> statsObjs[callerStats], clock |-> clock]

\* mul_classic(A, B), lines 16-35 of classic.py
CallClassic(Ops, R) ==
    /\ pc = "idle"
    /\ runs < R
    /\ \E A \in Ops, B \in Ops, d \in Tick :
        LET H == [mem |-> (argA :> A) @@ (argB :> B), next |-> firstLocal]
            v == classic_validate(A, B)
            c == call_classic(H, argA, argB)
        IN  /\ StartCall(A, B, "classic")
            /\ cutoff' = 0
            /\ statsArg' = 0
            /\ statsObjs' = (callerStats :> statsObjs[callerStats])
            /\ top' = NoTop
            /\ stack' = << >>
            /\ IF v # "ok"
               THEN /\ heap' = H.mem
                    /\ nextId' = H.next
                    /\ pc' = "error"
                    /\ ret' = Raised("ValueError", v, "validation")
                    /\ clock' = clock
                    /\ spent' = NoSpent
               ELSE /\ heap' = c.H.mem
                    /\ nextId' = c.H.next
                    /\ pc' = "done"
                    /\ ret' = Returned(c.r, 0)
                    /\ clock' = clock + d
                    /\ spent' = [NoSpent EXCEPT !.classic = d]

\* if stats is None: stats = StrassenStats(), lines 54-55: the object the
\* call counts into, and the stats objects there are after it
stats_ref(sa) == IF sa = 0 THEN freshStats ELSE sa

\* stats = StrassenStats() whatever the caller passed
stats_default_reset(objs, sa) ==
    IF sa = 0 THEN (freshStats :> StrassenStats) @@ (callerStats :> objs[callerStats])
    ELSE (callerStats :> StrassenStats)

stats_default(objs, sa) ==
    IF sa = 0 THEN (freshStats :> StrassenStats) @@ (callerStats :> objs[callerStats])
    ELSE (callerStats :> objs[callerStats])

\* mul_strassen(A, B, cutoff, stats), lines 47-62 and 67 of strassen.py:
\* validation, the default stats object, padding, and the call of
\* _strassen_rec
CallStrassen(Ops, R) ==
    /\ pc = "idle"
    /\ runs < R
    /\ \E A \in Ops, B \in Ops, c \in Cutoffs,
          sa \in {0, callerStats}, d \in Tick :
        LET H == [mem |-> (argA :> A) @@ (argB :> B), next |-> firstLocal]
            v == strassen_validate(A, B)
            kept == (callerStats :> statsObjs[callerStats])
            st == stats_ref(sa)
            n == Len(A)
            m == next_power_of_two(n)
            pA == call_pad_to_size(H, argA, m)
            pB == call_pad_to_size(pA.H, argB, m)
            Hp == IF m # n THEN pB.H ELSE H
            a == IF m # n THEN pA.r ELSE argA
            b == IF m # n THEN pB.r ELSE argB
        IN  /\ StartCall(A, B, "strassen")
            /\ cutoff' = c
            /\ statsArg' = sa
            /\ IF v # "ok"
               THEN /\ heap' = H.mem
                    /\ nextId' = H.next
                    /\ statsObjs' = kept
                    /\ top' = NoTop
                    /\ stack' = << >>
                    /\ pc' = "error"
                    /\ ret' = Raised("ValueError", v, "validation")
                    /\ clock' = clock
                    /\ spent' = NoSpent
               ELSE /\ heap' = Hp.mem
                    /\ nextId' = Hp.next
                    /\ statsObjs' = stats_default(statsObjs, sa)
                    /\ top' = [n |-> n, m |-> m, padded |-> (m # n),
                               A_pad |-> IF m # n THEN pA.r ELSE 0,
                               B_pad |-> IF m # n THEN pB.r ELSE 0,
                               C_rec |-> 0, stats |-> st]
                    /\ stack' = << NewFrame(a, b, Hp.next) >>
                    /\ pc' = "rec"
                    /\ ret' = NoRet
                    /\ clock' = clock + (IF m # n THEN d ELSE 0)
                    /\ spent' = [NoSpent EXCEPT !.out = IF m # n THEN d ELSE 0,
                                                !.invoked = 1, !.big = Big(m, c)]

\* the innermost frame of _strassen_rec
Frame == stack[Len(stack)]

\* stats.calls += 1, line 79
count_call(objs, st) == [objs EXCEPT ![st].calls = @ + 1]

\* the start of the window not subtracted
add_time_absolute(objs, st, now, t) == [objs EXCEPT ![st].split_combine_time = @ + now]

\* stats.split_combine_time += perf_counter() - t, lines 119 and 144
add_time(objs, st, now, t) == [objs EXCEPT ![st].split_combine_time = @ + (now - t)]

\* `return r` of the innermost frame: its locals die, and r goes to the
\* caller: the next M of the frame below, or C_pad / C of mul_strassen
Return(H, r) ==
    \E Hf \in {free(H, Frame.base, r)}, k \in {Len(stack)} :
        /\ heap' = Hf.mem
        /\ nextId' = Hf.next
        /\ IF k = 1
           THEN /\ stack' = << >>
                /\ top' = [top EXCEPT !.C_rec = r]
                /\ pc' = "ret"
           ELSE /\ stack' = [SubSeq(stack, 1, k - 1) EXCEPT
                                ![k - 1].M = Append(@, r),
                                ![k - 1].pc = @ + 1]
                /\ top' = top
                /\ pc' = "rec"
        /\ ret' = ret

\* an exception inside _strassen_rec unwinds every frame and mul_strassen
Raise(exc) ==
    /\ heap' = free(H0, firstLocal, 0).mem
    /\ nextId' = nextId
    /\ stack' = << >>
    /\ top' = top
    /\ pc' = "error"
    /\ ret' = Raised(exc, "", "recursion")

\* the count moved below the early return of the 1x1 case
RecBase_uncounted ==
    /\ pc = "rec"
    /\ Frame.pc = 0
    /\ Len(heap[Frame.A]) = 1
    /\ \E d \in Tick :
        LET A == heap[Frame.A]
            B == heap[Frame.B]
        IN  /\ statsObjs' = statsObjs
            /\ clock' = clock + d
            /\ spent' = [spent EXCEPT !.out = @ + d]
            /\ IF base_raises(A, B)
               THEN Raise("IndexError")
               ELSE \E c \in {alloc(H0, base_product(A, B))} : Return(c.H, c.r)
    /\ UNCHANGED << op, cutoff, statsArg, pre, runs >>

\* _strassen_rec, lines 79-84: count the call; n == 1 returns the product
RecBase ==
    /\ pc = "rec"
    /\ Frame.pc = 0
    /\ Len(heap[Frame.A]) = 1
    /\ \E d \in Tick :
        LET A == heap[Frame.A]
            B == heap[Frame.B]
        IN  /\ statsObjs' = count_call(statsObjs, top.stats)
            /\ clock' = clock + d
            /\ spent' = [spent EXCEPT !.out = @ + d]
            /\ IF base_raises(A, B)
               THEN Raise("IndexError")
               ELSE \E c \in {alloc(H0, base_product(A, B))} : Return(c.H, c.r)
    /\ UNCHANGED << op, cutoff, statsArg, pre, runs >>

\* _strassen_rec, lines 79-87: count the call; 1 < n <= cutoff returns
\* mul_classic(A, B)
RecClassic ==
    /\ pc = "rec"
    /\ Frame.pc = 0
    /\ Len(heap[Frame.A]) # 1
    /\ Len(heap[Frame.A]) <= cutoff
    /\ \E d \in Tick :
        LET A == heap[Frame.A]
            B == heap[Frame.B]
        IN  /\ statsObjs' = count_call(statsObjs, top.stats)
            /\ clock' = clock + d
            /\ spent' = [spent EXCEPT !.classic = @ + d]
            /\ IF classic_validate(A, B) # "ok"
               THEN Raise("ValueError")
               ELSE \E c \in {call_classic(H0, Frame.A, Frame.B)} :
                        Return(c.H, c.r)
    /\ UNCHANGED << op, cutoff, statsArg, pre, runs >>

\* _strassen_rec, lines 79-119: count the call; n > cutoff runs the first
\* timed window (the splits and the ten sums and differences)
RecSplit ==
    /\ pc = "rec"
    /\ Frame.pc = 0
    /\ Len(heap[Frame.A]) # 1
    /\ Len(heap[Frame.A]) > cutoff
    /\ \E d \in Tick :
        LET A == heap[Frame.A]
            B == heap[Frame.B]
            k == Len(stack)
            t0 == clock
            counted == count_call(statsObjs, top.stats)
        IN  /\ clock' = clock + d
            /\ \E q \in {quadrants(A, B)} :
               IF window1_raises(q)
               THEN /\ statsObjs' = counted
                    /\ spent' = [spent EXCEPT !.out = @ + d]
                    /\ Raise("IndexError")
               ELSE \E w \in {window1(H0, q)} :
                    /\ statsObjs' = add_time(counted, top.stats, clock', t0)
                    /\ spent' = [spent EXCEPT !.win = @ + d, !.nwin = @ + 1]
                    /\ heap' = w.H.mem
                    /\ nextId' = w.H.next
                    /\ stack' = [stack EXCEPT ![k].pc = 1, ![k].loc = w.r]
                    /\ UNCHANGED << top, pc, ret >>
    /\ UNCHANGED << op, cutoff, statsArg, pre, runs >>

\* _strassen_rec, lines 122-128: the next of the seven recursive calls
RecCall ==
    /\ pc = "rec"
    /\ Frame.pc \in 1..7
    /\ \E d \in Tick :
        LET args == sub_args(Frame.loc, Frame.pc)
        IN  /\ stack' = Append(stack, NewFrame(args[1], args[2], nextId))
            /\ clock' = clock + d
            /\ spent' = [spent EXCEPT !.out = @ + d, !.invoked = @ + 1,
                    !.big = @ + Big(Len(heap[args[1]]), cutoff)]
    /\ UNCHANGED << heap, nextId, op, cutoff, statsArg, statsObjs, top, pc,
                    ret, pre, runs >>

\* _strassen_rec, lines 135-146: the second timed window (the result
\* quadrants and combine), then return C
RecCombine ==
    /\ pc = "rec"
    /\ Frame.pc = 8
    /\ \E d \in Tick :
        LET t1 == clock
            V == [k \in 1..7 |-> heap[Frame.M[k]]]
        IN  /\ clock' = clock + d
            /\ IF window2_raises(V)
               THEN /\ statsObjs' = statsObjs
                    /\ spent' = [spent EXCEPT !.out = @ + d]
                    /\ Raise("IndexError")
               ELSE \E c \in {window2(H0, Frame.M)} :
                    /\ statsObjs' = add_time(statsObjs, top.stats, clock', t1)
                    /\ spent' = [spent EXCEPT !.win = @ + d, !.nwin = @ + 1]
                    /\ Return(c.H, c.r)
    /\ UNCHANGED << op, cutoff, statsArg, pre, runs >>

\* mul_strassen, lines 63-64 and 68: crop the padded result, return (C, stats)
Finish ==
    /\ pc = "ret"
    /\ \E d \in Tick,
          c \in {IF top.padded THEN call_crop(H0, top.C_rec, top.n)
                 ELSE [H |-> H0, r |-> top.C_rec]} :
        \E Hf \in {free(c.H, firstLocal, c.r)}, e \in {IF top.padded THEN d ELSE 0} :
            /\ heap' = Hf.mem
            /\ nextId' = Hf.next
            /\ ret' = Returned(c.r, top.stats)
            /\ clock' = clock + e
            /\ spent' = [spent EXCEPT !.out = @ + e]
    /\ pc' = "done"
    /\ UNCHANGED << op, cutoff, statsArg, statsObjs, top, stack, pre, runs >>

\* between two calls the caller lets go of the operands and of the result,
\* and keeps its stats object
Again ==
    /\ pc \in {"done", "error"}
    /\ runs < MaxRuns
    /\ heap' = << >>
    /\ nextId' = firstLocal
    /\ op' = "none"
    /\ cutoff' = 0
    /\ statsArg' = 0
    /\ statsObjs' = (callerStats :> statsObjs[callerStats])
    /\ top' = NoTop
    /\ stack' = << >>
    /\ pc' = "idle"
    /\ ret' = NoRet
    /\ pre' = [A |-> << >>, B |-> << >>, ids |-> {}, stats |-> statsObjs[callerStats],
               clock |-> clock]
    /\ spent' = NoSpent
    /\ UNCHANGED << clock, runs >>

Rec == RecBase \/ RecClassic \/ RecSplit \/ RecCall \/ RecCombine \/ Finish

Next ==
    \/ CallClassic(Operands, 1)
    \/ CallStrassen(Operands, 1)
    \/ RecBase
    \/ RecClassic
    \/ RecSplit
    \/ RecCall
    \/ RecCombine
    \/ Finish

Spec == Init /\ [][Next]_vars

\* one call on the operands of FairOperands
NextFair ==
    \/ CallClassic(FairOperands, 1)
    \/ CallStrassen(FairOperands, 1)
    \/ RecBase
    \/ RecClassic
    \/ RecSplit
    \/ RecCall
    \/ RecCombine
    \/ Finish

\* the same program under the scheduling of a sequential program: a call
\* that can take its next step takes it
SpecFair == Init /\ [][NextFair]_vars /\ WF_vars(Rec)

\* calls in a row that may pass the caller's stats object again
NextSeq ==
    \/ CallClassic(SeqOperands, MaxRuns)
    \/ CallStrassen(SeqOperands, MaxRuns)
    \/ Again
    \/ RecBase
    \/ RecClassic
    \/ RecSplit
    \/ RecCall
    \/ RecCombine
    \/ Finish

SpecSeq == Init /\ [][NextSeq]_vars

\* the padding round trip of mul_strassen on one matrix: pad_to_size to the
\* next power of two (lines 58-60), then crop back (line 63)
InitPad ==
    /\ \E A \in PadInputs :
        /\ heap = (argA :> A)
        /\ pre = [A |-> A, B |-> << >>, ids |-> {argA}, stats |-> StrassenStats,
                  clock |-> 0]
    /\ nextId = firstLocal
    /\ op = "none"
    /\ cutoff = 0
    /\ statsArg = 0
    /\ statsObjs = (callerStats :> StrassenStats)
    /\ top = NoTop
    /\ stack = << >>
    /\ pc = "idle"
    /\ clock = 0
    /\ ret = NoRet
    /\ spent = NoSpent
    /\ runs = 0

ApplyPad ==
    /\ pc = "idle"
    /\ LET n == Len(heap[argA])
           m == next_power_of_two(n)
           p == call_pad_to_size(H0, argA, m)
       IN  /\ heap' = p.H.mem
           /\ nextId' = p.H.next
           /\ top' = [NoTop EXCEPT !.n = n, !.m = m, !.padded = (m # n), !.A_pad = p.r]
    /\ pc' = "padded"
    /\ UNCHANGED << op, cutoff, statsArg, statsObjs, stack, clock, ret, pre, spent, runs >>

ApplyCrop ==
    /\ pc = "padded"
    /\ LET c == call_crop(H0, top.A_pad, top.n)
       IN  /\ heap' = c.H.mem
           /\ nextId' = c.H.next
           /\ ret' = Returned(c.r, 0)
    /\ pc' = "cropped"
    /\ UNCHANGED << op, cutoff, statsArg, statsObjs, top, stack, clock, pre, spent, runs >>

NextPad == ApplyPad \/ ApplyCrop

SpecPad == InitPad /\ [][NextPad]_vars

\* ------------------------------------------------------------------ claims
IsPow2(n) == \E k \in 0..n : 2 ^ k = n

\* the smallest power of two >= n
SmallestPow2(n) ==
    CHOOSE p \in 1..(2 * n) :
        /\ IsPow2(p)
        /\ p >= n
        /\ \A q \in 1..(2 * n) : (IsPow2(q) /\ q >= n) => p <= q

RECURSIVE claim_calls(_, _)
\* calls(n) = 1 if n <= cutoff, else 1 + 7 * calls(n / 2), for cutoff >= 1
claim_calls(n, c) == IF n <= c THEN 1 ELSE 1 + 7 * claim_calls(n \div 2, c)

\* the stats object the running call counts into
Stats == statsObjs[top.stats]

InStrassen == op = "strassen" /\ pc \in {"rec", "ret", "done"}

StrassenDone == op = "strassen" /\ pc = "done"

\* the call counts into a stats object that was fresh when the call started
FreshStats == statsArg = 0 \/ pre.stats = StrassenStats

\* the innermost invocation has not reached its first line yet
Entering == pc = "rec" /\ Frame.pc = 0

IsSquareOfSize(C, n) == Len(C) = n /\ \A i \in 1..n : Len(C[i]) = n

\* C1: for every n >= 1, every cutoff >= 1 and every pair of n x n integer
\* matrices, the matrix mul_strassen returns is n x n and equals the result
\* of mul_classic cell by cell; [[1,2],[3,4]] times [[5,6],[7,8]] is
\* [[19,22],[43,50]] by both.
C1_StrassenEqualsClassic ==
    /\ (StrassenDone /\ cutoff >= 1) =>
          /\ IsSquareOfSize(heap[ret.C], Len(pre.A))
          /\ heap[ret.C] = classic_loops(pre.A, pre.B)
    /\ (pc = "done" /\ pre.A = ExampleA /\ pre.B = ExampleB
            /\ (op = "strassen" => cutoff = 1)) =>
          heap[ret.C] = << << 19, 22 >>, << 43, 50 >> >>

\* a 3 x 3 product, padded to 4 x 4 and computed by 57 invocations
C1_Witness ==
    /\ StrassenDone
    /\ cutoff = 1
    /\ Len(pre.A) = 3
    /\ top.padded
    /\ Stats.calls = 57
    /\ heap[ret.C] # zeros(3)

\* C2: for a power-of-two n, cutoff >= 1 and a fresh stats object, calls is
\* calls(n) on return; every invocation of the recursive step counts itself
\* once, whichever case it takes; n = 8, cutoff = 1 gives 400.
C2_CallsRecurrence ==
    (InStrassen /\ FreshStats /\ cutoff >= 1 /\ IsPow2(Len(pre.A))) =>
        /\ Stats.calls = spent.invoked - (IF Entering THEN 1 ELSE 0)
        /\ pc = "done" => Stats.calls = claim_calls(Len(pre.A), cutoff)
        /\ (pc = "done" /\ Len(pre.A) = 8 /\ cutoff = 1) => Stats.calls = 400

C2_Witness ==
    /\ StrassenDone
    /\ FreshStats
    /\ Len(pre.A) = 8
    /\ cutoff = 1
    /\ Stats.calls = 400

\* C3: for n not a power of two and a fresh stats object, the padded size
\* m = next_power_of_two(n) decides calls: it is 1 on return whenever
\* m <= cutoff (n = 3, cutoff = 4), and calls(m) for cutoff >= 1; padding and
\* cropping count nothing.
C3_PaddedSizeDecidesCalls ==
    (InStrassen /\ FreshStats /\ ~IsPow2(Len(pre.A))) =>
        LET m == SmallestPow2(Len(pre.A))
        IN  /\ (Len(stack) = 1 /\ Entering) => Stats.calls = 0
            /\ pc \in {"ret", "done"} => Stats.calls = spent.invoked
            /\ (pc = "done" /\ m <= cutoff) => Stats.calls = 1
            /\ (pc = "done" /\ cutoff >= 1) => Stats.calls = claim_calls(m, cutoff)

C3_Witness ==
    /\ StrassenDone
    /\ FreshStats
    /\ Len(pre.A) = 3
    /\ cutoff = 4
    /\ top.padded
    /\ top.m = 4
    /\ Stats.calls = 1

HasBadRow(M) == \E i \in 1..Len(M) : Len(M[i]) # Len(M)

\* a call has been made and has failed in its validation, before anything
\* was allocated, counted or timed
FailedAtOnce(msg) ==
    /\ pc = "error"
    /\ ret = Raised("ValueError", msg, "validation")
    /\ DOMAIN heap = {argA, argB}
    /\ nextId = firstLocal
    /\ stack = << >>
    /\ spent = NoSpent
    /\ clock = pre.clock
    /\ statsObjs = (callerStats :> pre.stats)

Called == op \in {"classic", "strassen"} /\ pc # "idle"

\* C4: for two square matrices of different sizes, mul_classic and
\* mul_strassen both end in the size-mismatch error and return no matrix;
\* the error comes before any computation, and a stats object passed to
\* mul_strassen keeps its calls and its structural time.
C4_SizeMismatchFailsFast ==
    (Called /\ ~HasBadRow(pre.A) /\ ~HasBadRow(pre.B) /\ Len(pre.A) # Len(pre.B)) =>
        FailedAtOnce("A e B devem ter o mesmo tamanho (n x n).")

\* a 3 x 3 by 2 x 2 call of mul_strassen with a stats object that has counted
C4_Witness ==
    /\ op = "strassen"
    /\ pc = "error"
    /\ IsSquareOfSize(pre.A, 3)
    /\ IsSquareOfSize(pre.B, 2)
    /\ statsArg = callerStats
    /\ pre.stats.calls > 0
    /\ statsObjs[callerStats] = pre.stats

\* C5: with a fresh stats object the structural time is never negative and
\* is the sum of the durations of the two timed windows of the invocations
\* on a size above the cutoff; time inside the classic multiplier, the 1 x 1
\* case, padding and cropping is not in it, and a call whose padded size is
\* <= cutoff leaves it at 0.
C5_StructuralTime ==
    (InStrassen /\ FreshStats) =>
        /\ Stats.split_combine_time >= 0
        /\ Stats.split_combine_time = spent.win
        /\ spent.win + spent.classic + spent.out = clock - pre.clock
        /\ pc = "done" => spent.nwin = 2 * spent.big
        /\ (pc = "done" /\ top.m <= cutoff) => Stats.split_combine_time = 0

\* time went by inside the classic multiplier and inside a window
C5_Witness ==
    /\ StrassenDone
    /\ FreshStats
    /\ spent.classic > 0
    /\ spent.win > 0
    /\ Stats.split_combine_time = spent.win

RECURSIVE fresh_calls(_, _)
\* the invocations of a call on a padded size m: what calls is after the
\* same call with a fresh stats object
fresh_calls(m, c) == IF m = 1 \/ m <= c THEN 1 ELSE 1 + 7 * fresh_calls(m \div 2, c)

CallerStatsGrow ==
    /\ statsObjs'[callerStats].calls >= statsObjs[callerStats].calls
    /\ statsObjs'[callerStats].split_combine_time
          >= statsObjs[callerStats].split_combine_time

\* C6: over calls of mul_strassen that pass the same stats object again, the
\* object is never reset: its calls and structural time decrease at no step,
\* the object returned is the one passed, and after each successful call
\* calls is what it was before plus what the call counts from fresh.
C6_StatsAccumulate ==
    /\ [][CallerStatsGrow]_vars
    /\ []((StrassenDone /\ statsArg = callerStats) =>
            /\ ret.stats = callerStats
            /\ DOMAIN statsObjs = {callerStats}
            /\ statsObjs[callerStats].calls
                  = pre.stats.calls + fresh_calls(SmallestPow2(Len(pre.A)), cutoff)
            /\ statsObjs[callerStats].split_combine_time
                  = pre.stats.split_combine_time + spent.win)

\* a second call that counts on top of what the first one counted
C6_Witness ==
    /\ StrassenDone
    /\ statsArg = callerStats
    /\ runs = 2
    /\ pre.stats.calls = 57
    /\ pre.stats.split_combine_time > 0
    /\ statsObjs[callerStats].calls = 65

\* C7: for n not a power of two and an n x n matrix A, cropping
\* pad_to_size(A, next_power_of_two(n)) back to n gives A again;
\* next_power_of_two(n) is the smallest power of two >= n, and the padded
\* matrix is 0 outside its top-left n x n block.
C7_PadCropRoundTrip ==
    (pc \in {"padded", "cropped"} /\ ~IsPow2(Len(pre.A))) =>
        LET n == Len(pre.A)
            P == heap[top.A_pad]
        IN  /\ top.m = SmallestPow2(n)
            /\ IsSquareOfSize(P, top.m)
            /\ \A i \in 1..top.m, j \in 1..top.m :
                  P[i][j] = IF i <= n /\ j <= n THEN pre.A[i][j] ELSE 0
            /\ pc = "cropped" => heap[ret.C] = pre.A

\* a 5 x 5 matrix with a non-zero last column, padded to 8 x 8 and cropped
C7_Witness ==
    /\ pc = "cropped"
    /\ Len(pre.A) = 5
    /\ top.m = 8
    /\ pre.A[5][5] # 0
    /\ pre.A[1][5] # 0
    /\ heap[ret.C] = pre.A

\* C8: once validation has passed, mul_strassen ends and returns a result,
\* for every size n >= 1 and every integer cutoff (for cutoff <= 0 the 1 x 1
\* case alone ends the recursion), and no error is reachable after validation.
C8_TerminatesWithoutError ==
    /\ [](pc = "error" => ret.at = "validation")
    /\ (op = "strassen" /\ pc \in {"rec", "ret"}) ~> (pc = "done" /\ ret.kind = "value")

\* a call with a negative cutoff that went down to the 1 x 1 case and returned
C8_Witness ==
    /\ StrassenDone
    /\ cutoff = -1
    /\ Len(pre.A) = 3
    /\ Stats.calls = 57
    /\ ret.kind = "value"

\* C9: when A or B has a row whose length is not its number of rows,
\* mul_classic and mul_strassen both fail with the shape error that names
\* the matrix (A whenever A is not square, B when only B is not), before any
\* multiplication step and with a passed stats object left as it was.
C9_ShapeErrorNamesMatrix ==
    /\ (Called /\ HasBadRow(pre.A)) => FailedAtOnce("Matriz A nao e quadrada.")
    /\ (Called /\ ~HasBadRow(pre.A) /\ HasBadRow(pre.B)) =>
          FailedAtOnce("Matriz B nao e quadrada.")

\* both operands are not square, and the error names A
C9_Witness ==
    /\ op = "classic"
    /\ pc = "error"
    /\ HasBadRow(pre.A)
    /\ HasBadRow(pre.B)
    /\ ret.msg = "Matriz A nao e quadrada."
    /\ pre.stats.calls > 0

\* C10: mul_classic and mul_strassen leave their operands as they were, on
\* the padded path and on the direct path and at every depth of the
\* recursion, and the result is a newly allocated matrix.
C10_OperandsUnchanged ==
    Called =>
        /\ heap[argA] = pre.A
        /\ heap[argB] = pre.B
        /\ pc = "done" => (ret.C \in DOMAIN heap /\ ret.C \notin pre.ids)

\* a 4 x 4 call on the direct path that recursed to the 1 x 1 case
C10_Witness ==
    /\ StrassenDone
    /\ Len(pre.A) = 4
    /\ ~top.padded
    /\ cutoff = 1
    /\ Stats.calls = 57
    /\ heap[argA] = pre.A
    /\ ret.C \notin pre.ids

\* the invocation f of _strassen_rec has bound the locals of lines 93-117
HasSplit(f) == f.pc >= 1

\* C11: on validated inputs every invocation of the recursive step gets two
\* square matrices of one size, a power of two; so split is only called on
\* an even size and gives four quadrants of size n/2 x n/2, and each of the
\* seven sub-calls gets a pair of one size.  Stated of every invocation on
\* the stack, the running one and the ones waiting for a sub-call.
C11_RecursionOnPowersOfTwo ==
    (op = "strassen" /\ pc = "rec") =>
        \A d \in 1..Len(stack) :
            LET f == stack[d]
                n == Len(heap[f.A])
            IN  /\ IsSquareOfSize(heap[f.A], n)
                /\ IsSquareOfSize(heap[f.B], n)
                /\ IsPow2(n)
                /\ (n # 1 /\ n > cutoff) => n % 2 = 0
                /\ HasSplit(f) =>
                      /\ n % 2 = 0
                      /\ \A k \in 1..Len(quad_names) :
                            IsSquareOfSize(heap[f.loc[quad_names[k]]], n \div 2)
                      /\ \A k \in 1..7 :
                            /\ IsSquareOfSize(heap[sub_args(f.loc, k)[1]], n \div 2)
                            /\ IsSquareOfSize(heap[sub_args(f.loc, k)[2]], n \div 2)

\* a 3 x 3 call padded to 4 x 4: invocations on sizes 4, 2 and 1 are running,
\* the two outer ones past their split
C11_Witness ==
    /\ op = "strassen"
    /\ pc = "rec"
    /\ Len(pre.A) = 3
    /\ top.padded
    /\ Len(stack) = 3
    /\ Len(heap[stack[1].A]) = 4
    /\ HasSplit(stack[1])
    /\ Len(heap[stack[2].A]) = 2
    /\ HasSplit(stack[2])
    /\ Len(heap[Frame.A]) = 1

====
